---- MODULE Spec2Model ----
(***************************************************************************)
(* Verification model of the external coordinator for LND mission control  *)
(* data (handlers.go): the merge of two PairData observations              *)
(* (mergePairData), the registration pipeline (validate, sanitize, batch   *)
(* read-modify-write), the query and the stale-data cleanup routine.       *)
(*                                                                         *)
(* Eleven specifications share the module:                                 *)
(*   MergeSpec  one run of mergePairData on inputs drawn in Init, stepped  *)
(*              rule by rule so that the record between the rules is a     *)
(*              state;                                                     *)
(*   Spec       the server: RegisterMissionControl,                        *)
(*              QueryAggregatedMissionControl, RunCleanupRoutine and its   *)
(*              ticker, over a bbolt bucket and a clock;                   *)
(*   RequestSpec   one request taken through the validator and the         *)
(*              sanitizer, each with its own clock reading;                *)
(*   RegisterSpec  one RegisterMissionControl call on a store and a clock  *)
(*              reading drawn in the initial state;                        *)
(*   TxSpec     concurrent registrations and sweeps at the granularity of  *)
(*              bbolt transactions: db.Batch with its re-runs, db.Update;  *)
(*   TxQuerySpec   TxSpec with queries: db.View and the response;          *)
(*   CleanupSpec   the cleanup routine with its context and ticker, and    *)
(*              sweeps that may fail;                                      *)
(*   CleanupFairSpec  CleanupSpec with the scheduling its liveness needs;  *)
(*   StaleSpec  one call of isHistoryStale on a history and a clock        *)
(*              reading drawn in the initial state;                        *)
(*   WideMergeSpec  MergeSpec on amounts up to the largest int64;          *)
(*   TxFairSpec registrations, sweeps and queries as calls that wait for   *)
(*              their bbolt transaction, with fair scheduling.             *)
(***************************************************************************)
EXTENDS Integers, Sequences, FiniteSets, TLC

VARIABLES
    existingData,   \* mergePairData: the record updated in place
    newData,        \* mergePairData: the observation merged into it
    oldData,        \* the value of existingData when mergePairData was called
    mpc,            \* mergePairData: the rule to run next, or how it ended
    db,             \* the MissionControl bucket: key -> JSON value
    now,            \* time.Now(), in UNIX seconds
    cleanup,        \* the cleanup routine: "off", "running", "cancelled",
                    \* "stopped"
    lastCall,       \* the last call that returned, with what it returned
    call,           \* one request on its way through the validator and the
                    \* sanitizer
    regs,           \* concurrent RegisterMissionControl calls: where each
                    \* one is, its request, its aggregatedData map
    pending,        \* db.Batch: the calls waiting for the next batch
    running,        \* db.Batch: the calls of the batch being run
    tx,             \* the open read-write transaction and its private
                    \* copy of the bucket
    committed       \* the transactions committed so far, in commit order

mergeVars == <<existingData, newData, oldData, mpc>>
serverVars == <<db, now, cleanup, lastCall>>
txVars == <<regs, pending, running, tx, committed>>
vars ==
    <<existingData, newData, oldData, mpc, db, now, cleanup, lastCall, call,
      regs, pending, running, tx, committed>>

----------------------------------------------------------------------------
(* Constants of the program.                                               *)

PubKeyCompressedSize == 33

PubKeyCompressedSizeDouble == PubKeyCompressedSize * 2

mSatScale == 1000

\* Seconds. The definition is not in the sources at hand; one minute is the
\* value the tests bracket (a 5 s gap trips the guard, a 70 s gap does not).
MinFailureRelaxInterval == 60

\* config.Server.HistoryThresholdDuration, in seconds (ten minutes).
HistoryThresholdDuration == 600

\* config.Server.StaleDataCleanupInterval, in seconds.
StaleDataCleanupInterval == 1

----------------------------------------------------------------------------
(* Bounds of the model.                                                    *)

\* Fail times of the merge inputs: 0 and 1000, 1030, .. 1000 + 30*MaxFailTick.
MaxFailTick == 2

\* Success times of the merge inputs: 0 and 1000 .. 1000 + 30*MaxSuccTick.
MaxSuccTick == 1

\* Amounts of the merge inputs, in whole satoshis: 0 .. MaxSat (and one
\* millisatoshi below each).
MaxSat == 1

\* Pairs in one registration request.
MaxPairs == 2

----------------------------------------------------------------------------
(* int64 arithmetic.  TLC's integers are 32 bits wide, so the int64 range  *)
(* is modelled by a narrower two's complement range with the same wrap.    *)

MaxInt64 == 1048575

MinInt64 == -MaxInt64 - 1

Wrap64(x) == ((x - MinInt64) % (2 * (MaxInt64 + 1))) + MinInt64

\* Go's integer division truncates toward zero.
GoDiv(a, b) == IF a >= 0 THEN a \div b ELSE -((-a) \div b)

Max(a, b) == IF a >= b THEN a ELSE b

----------------------------------------------------------------------------
(* ecrpc.PairData.                                                         *)

PairDataFields ==
    {"FailTime", "FailAmtSat", "FailAmtMsat",
     "SuccessTime", "SuccessAmtSat", "SuccessAmtMsat"}

PairData(ft, fas, fam, st, sas, sam) ==
    [FailTime |-> ft, FailAmtSat |-> fas, FailAmtMsat |-> fam,
     SuccessTime |-> st, SuccessAmtSat |-> sas, SuccessAmtMsat |-> sam]

\* &ecrpc.PairData{}: every field zero.
ZeroPairData == PairData(0, 0, 0, 0, 0, 0)

----------------------------------------------------------------------------
(* mergePairData, rule by rule.                                            *)

\* A variant that clobbers the success amount with the newer one.
SuccessUpdateClobber(e, n) ==
    IF n.SuccessTime > e.SuccessTime
    THEN [e EXCEPT !.SuccessTime = n.SuccessTime,
                   !.SuccessAmtMsat = n.SuccessAmtMsat]
    ELSE e

\* A variant that takes the newer success time only with a larger amount.
SuccessUpdateTimeWithAmount(e, n) ==
    IF n.SuccessTime > e.SuccessTime /\ n.SuccessAmtMsat > e.SuccessAmtMsat
    THEN [e EXCEPT !.SuccessTime = n.SuccessTime,
                   !.SuccessAmtMsat = n.SuccessAmtMsat]
    ELSE e

\* if newData.SuccessTime > existingData.SuccessTime { ... }
SuccessUpdate(e, n) ==
    IF n.SuccessTime > e.SuccessTime
    THEN [e EXCEPT !.SuccessTime = n.SuccessTime,
                   !.SuccessAmtMsat = Max(e.SuccessAmtMsat, n.SuccessAmtMsat)]
    ELSE e

\* A variant whose guard never trips.
RelaxGuardNever(e, n) == FALSE

\* Inside "if newData.FailTime > existingData.FailTime": the higher failure
\* amount arrives too soon after the previous failure, and mergePairData
\* returns.
RelaxGuardTrips(e, n) ==
    /\ n.FailTime > e.FailTime
    /\ n.FailAmtMsat > e.FailAmtMsat
    /\ n.FailTime - e.FailTime < MinFailureRelaxInterval

\* A variant that moves the success range down to the failure amount itself.
FailureUpdateOffByOne(e, n) ==
    IF n.FailTime > e.FailTime
    THEN LET f == [e EXCEPT !.FailTime = n.FailTime,
                            !.FailAmtMsat = n.FailAmtMsat]
         IN  IF n.FailAmtMsat = 0
             THEN [f EXCEPT !.SuccessAmtMsat = 0]
             ELSE IF n.FailAmtMsat <= e.SuccessAmtMsat
                  THEN [f EXCEPT !.SuccessAmtMsat = n.FailAmtMsat]
                  ELSE f
    ELSE e

\* A variant that takes the new failure amount and keeps the old failure time.
FailureUpdateKeepsTime(e, n) ==
    IF n.FailTime > e.FailTime
    THEN LET f == [e EXCEPT !.FailAmtMsat = n.FailAmtMsat]
         IN  IF n.FailAmtMsat = 0
             THEN [f EXCEPT !.SuccessAmtMsat = 0]
             ELSE IF n.FailAmtMsat <= e.SuccessAmtMsat
                  THEN [f EXCEPT !.SuccessAmtMsat = Wrap64(n.FailAmtMsat - 1)]
                  ELSE f
    ELSE e

\* The failure update once the guard has let it through: the new failure
\* time and amount, and the switch that moves the success range.
FailureUpdate(e, n) ==
    IF n.FailTime > e.FailTime
    THEN LET f == [e EXCEPT !.FailTime = n.FailTime,
                            !.FailAmtMsat = n.FailAmtMsat]
         IN  IF n.FailAmtMsat = 0
             THEN [f EXCEPT !.SuccessAmtMsat = 0]
             ELSE IF n.FailAmtMsat <= e.SuccessAmtMsat
                  THEN [f EXCEPT !.SuccessAmtMsat = Wrap64(n.FailAmtMsat - 1)]
                  ELSE f
    ELSE e

\* A variant that looks at the success amount of the record, not at that of
\* the observation.
FailureRangeRepairOwnSuccess(e, n) ==
    IF e.FailTime # 0 /\ e.SuccessAmtMsat >= e.FailAmtMsat
    THEN [e EXCEPT !.FailAmtMsat = Wrap64(e.SuccessAmtMsat + 1)]
    ELSE e

\* Move the failure range up if the success amount goes into it.
FailureRangeRepair(e, n) ==
    IF e.FailTime # 0 /\ n.SuccessAmtMsat >= e.FailAmtMsat
    THEN [e EXCEPT !.FailAmtMsat = Wrap64(n.SuccessAmtMsat + 1)]
    ELSE e

\* The satoshi amounts from the millisatoshi amounts.
RederiveSat(e) ==
    [e EXCEPT !.SuccessAmtSat = GoDiv(e.SuccessAmtMsat, mSatScale),
              !.FailAmtSat = GoDiv(e.FailAmtMsat, mSatScale)]

\* mergePairData(existingData, newData): the value of existingData when it
\* returns.
mergePairData(e, n) ==
    LET e1 == SuccessUpdate(e, n)
    IN  IF RelaxGuardTrips(e1, n)
        THEN e1
        ELSE RederiveSat(FailureRangeRepair(FailureUpdate(e1, n), n))

----------------------------------------------------------------------------
(* MergeSpec: one call of mergePairData.                                   *)

Times(k) == {0} \cup {1000 + 30 * i : i \in 0..k}

FailTimes == Times(MaxFailTick)

SuccTimes == Times(MaxSuccTick)

\* Millisatoshi amounts: whole satoshis and one millisatoshi below each.
Amts == {0} \cup {mSatScale * s : s \in 1..MaxSat}
            \cup {mSatScale * s - 1 : s \in 1..MaxSat}

\* A record with the given times and millisatoshi amounts; its satoshi
\* fields are those of the amounts (skew 0) or off by skew.
Observation(ft, fam, st, sam, skew) ==
    PairData(ft, GoDiv(fam, mSatScale) + skew, fam,
             st, GoDiv(sam, mSatScale) + skew, sam)

Observations ==
    {Observation(ft, fam, st, sam, skew) :
        ft \in FailTimes, fam \in Amts, st \in SuccTimes, sam \in Amts,
        skew \in {0, 1}}

\* No call is in db.Batch and no read-write transaction is open.
NoTransactions ==
    /\ regs = <<>>
    /\ pending = <<>>
    /\ running = <<>>
    /\ tx = [owner |-> "none"]
    /\ committed = <<>>

MergeInit ==
    /\ existingData \in Observations
    /\ newData \in Observations
    /\ oldData = existingData
    /\ mpc = "success"
    /\ db = [k \in {} |-> <<>>]
    /\ now = 0
    /\ cleanup = "off"
    /\ lastCall = [op |-> "none"]
    /\ NoTransactions
    /\ call = [pc |-> "idle"]

MergeSuccess ==
    /\ mpc = "success"
    /\ existingData' = SuccessUpdate(existingData, newData)
    /\ mpc' = "failure"
    /\ UNCHANGED <<newData, oldData, serverVars, call, txVars>>

MergeFailure ==
    /\ mpc = "failure"
    /\ IF RelaxGuardTrips(existingData, newData)
       THEN /\ mpc' = "returned"
            /\ UNCHANGED existingData
       ELSE /\ existingData' = FailureUpdate(existingData, newData)
            /\ mpc' = "repair"
    /\ UNCHANGED <<newData, oldData, serverVars, call, txVars>>

MergeRepair ==
    /\ mpc = "repair"
    /\ existingData' = FailureRangeRepair(existingData, newData)
    /\ mpc' = "units"
    /\ UNCHANGED <<newData, oldData, serverVars, call, txVars>>

MergeUnits ==
    /\ mpc = "units"
    /\ existingData' = RederiveSat(existingData)
    /\ mpc' = "done"
    /\ UNCHANGED <<newData, oldData, serverVars, call, txVars>>

MergeNext == MergeSuccess \/ MergeFailure \/ MergeRepair \/ MergeUnits

MergeSpec == MergeInit /\ [][MergeNext]_vars

\* mergePairData has returned, at its end or at the guard.
MergeReturned == mpc \in {"done", "returned"}

\* The rule-by-rule run ends in the value mergePairData computes.
MergeStepsAgree ==
    MergeReturned => existingData = mergePairData(oldData, newData)

----------------------------------------------------------------------------
(* Node identities and bucket keys.                                        *)

\* A byte string of the given length: a format byte, then a filler byte.
Bytes(len, first, fill) == [i \in 1..len |-> IF i = 1 THEN first ELSE fill]

\* Two compressed secp256k1 public keys.
NodeA == Bytes(PubKeyCompressedSize, 2, 170)

NodeB == Bytes(PubKeyCompressedSize, 3, 187)

\* One byte short of a compressed public key.
NodeShort == Bytes(PubKeyCompressedSize - 1, 2, 170)

\* 33 bytes that are no point of the curve.
NodeOffCurve == Bytes(PubKeyCompressedSize, 2, 0)

\* btcec.ParsePubKey returns no error.
ParsePubKeyOk(b) == b \in {NodeA, NodeB}

\* [PubKeyCompressedSizeDouble]byte(append(pair.NodeFrom, pair.NodeTo...))
PairKey(pair) ==
    SubSeq(pair.NodeFrom \o pair.NodeTo, 1, PubKeyCompressedSizeDouble)

\* Byte order of two keys of the same length, the order of a bucket's keys.
KeyLess(a, b) ==
    \E i \in 1..Len(a) :
        /\ a[i] < b[i]
        /\ \A j \in 1..(i - 1) : a[j] = b[j]

\* The keys of a set in the order ForEach visits them.
RECURSIVE SortedKeys(_)
SortedKeys(S) ==
    IF S = {} THEN <<>>
    ELSE LET k == CHOOSE x \in S : \A y \in S \ {x} : KeyLess(x, y)
         IN  <<k>> \o SortedKeys(S \ {k})

----------------------------------------------------------------------------
(* The JSON value of a PairData: zero-valued fields are omitted.           *)

JsonName(f) ==
    CASE f = "FailTime" -> "fail_time"
      [] f = "FailAmtSat" -> "fail_amt_sat"
      [] f = "FailAmtMsat" -> "fail_amt_msat"
      [] f = "SuccessTime" -> "success_time"
      [] f = "SuccessAmtSat" -> "success_amt_sat"
      [] f = "SuccessAmtMsat" -> "success_amt_msat"

\* json.Marshal(history)
Marshal(h) ==
    LET present == {f \in PairDataFields : h[f] # 0}
    IN  [name \in {JsonName(f) : f \in present} |->
            h[CHOOSE f \in present : JsonName(f) = name]]

\* json.Unmarshal(v, &ecrpc.PairData{})
Unmarshal(v) ==
    LET field(f) == IF JsonName(f) \in DOMAIN v THEN v[JsonName(f)] ELSE 0
    IN  PairData(field("FailTime"), field("FailAmtSat"), field("FailAmtMsat"),
                 field("SuccessTime"), field("SuccessAmtSat"),
                 field("SuccessAmtMsat"))

\* The bucket with no key.
EmptyBucket == [k \in {} |-> <<>>]

----------------------------------------------------------------------------
(* Staleness.                                                              *)

\* The most recent of the timestamps, 0 when none is positive.
mostRecentUnixTimestamp(failTime, successTime) ==
    Max(0, Max(failTime, successTime))

\* A variant that also calls stale a history exactly as old as the threshold.
isHistoryStaleInclusive(history, threshold, t) ==
    mostRecentUnixTimestamp(history.FailTime, history.SuccessTime)
        <= t - threshold

\* unixToInternal of the time package, the seconds from year 1 to 1970
\* (62135596800 of the 2^63 an int64 holds), on the scale of MaxInt64.
unixToInternal == 62135

\* time.Unix(sec, 0): the seconds of the time.Time it returns, counted from
\* year 1 in an int64 (sec + unixToInternal, which wraps).
UnixSeconds(sec) == Wrap64(sec + unixToInternal)

\* isHistoryStale(history, threshold) when time.Now() reads t:
\* time.Unix(recentTimestamp, 0).Before(time.Now().Add(-threshold)) compares
\* the seconds of the two time.Time values.
isHistoryStale(history, threshold, t) ==
    UnixSeconds(mostRecentUnixTimestamp(history.FailTime, history.SuccessTime))
        < (t - threshold) + unixToInternal

----------------------------------------------------------------------------
(* Requests.                                                               *)

\* A request that is a nil pointer.
NilRequest == [nil |-> TRUE]

\* A History that is a nil pointer.
NilHistory == [nil |-> TRUE]

PairHistory(from, to, history) ==
    [NodeFrom |-> from, NodeTo |-> to, History |-> history]

\* The request of the tests: a failure, and a success of a higher amount.
HistoryBoth == PairData(1030, 1, 1000, 1030, 2, 2000)

\* A higher failure 30 s after HistoryBoth's.
HistoryFailSoon == PairData(1060, 1, 1999, 0, 0, 0)

\* A success whose satoshi amount is not its millisatoshi amount / 1000.
HistorySkewed == PairData(0, 0, 0, 1060, 5, 1000)

\* A failure that is stale at every reading of the clock.
HistoryStale == PairData(400, 1, 1000, 0, 0, 0)

\* A success of the largest amount an int64 holds.
HistoryHuge == PairData(0, 0, 0, 1060, GoDiv(MaxInt64, mSatScale), MaxInt64)

\* A failure of a negative amount.
HistoryNegative == PairData(1060, -1, -1000, 0, 0, 0)

\* The pairs requests are made of.
RequestPairs ==
    {PairHistory(NodeA, NodeB, HistoryBoth),
     PairHistory(NodeA, NodeB, HistoryFailSoon),
     PairHistory(NodeB, NodeA, HistorySkewed),
     PairHistory(NodeA, NodeB, HistoryStale),
     PairHistory(NodeA, NodeB, HistoryHuge),
     PairHistory(NodeShort, NodeB, HistoryBoth),
     PairHistory(NodeA, NodeOffCurve, HistoryBoth),
     PairHistory(NodeA, NodeB, NilHistory),
     PairHistory(NodeA, NodeB, HistoryNegative)}

SeqsUpTo(S, n) == UNION {[1..m -> S] : m \in 0..n}

RegisterMissionControlRequest(pairs) == [Pairs |-> pairs]

\* A request is nil or carries a list of pairs.
Requests ==
    {NilRequest}
        \cup {RegisterMissionControlRequest(pairs) :
                 pairs \in SeqsUpTo(RequestPairs, MaxPairs)}

\* The readings of time.Now(): HistoryBoth is stale from the second on,
\* HistoryFailSoon and HistorySkewed at the third.
ClockValues == {1060, 1650, 1680}

\* The clock after it has advanced past t; t once no reading is later.
NextClock(t) ==
    IF \A u \in ClockValues : u <= t THEN t
    ELSE CHOOSE u \in ClockValues :
             /\ u > t
             /\ \A w \in ClockValues : w > t => u <= w

----------------------------------------------------------------------------
(* validateRegisterMissionControlRequest.                                  *)

\* The check a pair fails first, or "ok".
ValidatePair(pair) ==
    IF Len(pair.NodeFrom) # PubKeyCompressedSize THEN "NodeFrom length"
    ELSE IF Len(pair.NodeTo) # PubKeyCompressedSize THEN "NodeTo length"
    ELSE IF ~ParsePubKeyOk(pair.NodeFrom) THEN "NodeFrom public key"
    ELSE IF ~ParsePubKeyOk(pair.NodeTo) THEN "NodeTo public key"
    ELSE IF pair.History = NilHistory THEN "nil history"
    ELSE IF \/ pair.History.FailAmtSat < 0
            \/ pair.History.SuccessAmtSat < 0
            \/ pair.History.FailAmtMsat < 0
            \/ pair.History.SuccessAmtMsat < 0 THEN "negative amount"
    ELSE "ok"

\* The loop over req.Pairs from pair i on, with the allStale flag so far.
RECURSIVE ValidatePairs(_, _, _, _)
ValidatePairs(pairs, i, allStale, t) ==
    IF i > Len(pairs)
    THEN IF allStale THEN "all stale" ELSE "ok"
    ELSE LET err == ValidatePair(pairs[i])
         IN  IF err # "ok" THEN err
             ELSE ValidatePairs(
                      pairs, i + 1,
                      allStale /\ isHistoryStale(
                          pairs[i].History, HistoryThresholdDuration, t),
                      t)

\* The number of pairs, from pair i on, that the loop takes through the
\* checks of one pair before it meets one that fails them.
RECURSIVE PairsPassed(_, _)
PairsPassed(req, i) ==
    IF req = NilRequest THEN 0
    ELSE IF i > Len(req.Pairs) THEN 0
    ELSE IF ValidatePair(req.Pairs[i]) # "ok" THEN 0
    ELSE 1 + PairsPassed(req, i + 1)

\* The InvalidArgument error of the request, or "ok".
validateRegisterMissionControlRequest(req, t) ==
    IF req = NilRequest THEN "nil request"
    ELSE IF Len(req.Pairs) = 0 THEN "no pairs"
    ELSE ValidatePairs(req.Pairs, 1, TRUE, t)

----------------------------------------------------------------------------
(* sanitizeRegisterMissionControlRequest.                                  *)

\* The slice without its element i.
RemoveAt(pairs, i) == SubSeq(pairs, 1, i - 1) \o SubSeq(pairs, i + 1, Len(pairs))

\* A variant of the loop that steps over the pair before one it removes.
RECURSIVE SanitizeSkipping(_, _, _)
SanitizeSkipping(pairs, i, t) ==
    IF i < 1 THEN pairs
    ELSE IF isHistoryStale(pairs[i].History, HistoryThresholdDuration, t)
         THEN SanitizeSkipping(RemoveAt(pairs, i), i - 2, t)
         ELSE SanitizeSkipping(pairs, i - 1, t)

\* The loop from index i down to 1: the pairs left.
RECURSIVE SanitizeFrom(_, _, _)
SanitizeFrom(pairs, i, t) ==
    IF i < 1 THEN pairs
    ELSE IF isHistoryStale(pairs[i].History, HistoryThresholdDuration, t)
         THEN SanitizeFrom(RemoveAt(pairs, i), i - 1, t)
         ELSE SanitizeFrom(pairs, i - 1, t)

\* A variant that removes nothing.
SanitizeNothing(pairs, t) == pairs

\* req.Pairs after the call.
sanitizeRegisterMissionControlRequest(pairs, t) ==
    SanitizeFrom(pairs, Len(pairs), t)

\* The loop from index i down to 1: the increments of stalePairsRemoved.
RECURSIVE StaleRemovedFrom(_, _, _)
StaleRemovedFrom(pairs, i, t) ==
    IF i < 1 THEN 0
    ELSE IF isHistoryStale(pairs[i].History, HistoryThresholdDuration, t)
         THEN 1 + StaleRemovedFrom(RemoveAt(pairs, i), i - 1, t)
         ELSE StaleRemovedFrom(pairs, i - 1, t)

\* The value the call returns.
stalePairsRemoved(pairs, t) == StaleRemovedFrom(pairs, Len(pairs), t)

----------------------------------------------------------------------------
(* The body of the batch transaction of RegisterMissionControl.            *)

\* aggregatedData after ForEach has decoded the bucket.
LoadBucket(bucket) == [k \in DOMAIN bucket |-> Unmarshal(bucket[k])]

\* A variant of the loop that sets a key without a record only for the
\* first pair of the request.
RECURSIVE AggregateFirstNewKey(_, _, _)
AggregateFirstNewKey(agg, pairs, i) ==
    IF i > Len(pairs) THEN agg
    ELSE LET key == PairKey(pairs[i])
         IN  IF key \in DOMAIN agg
             THEN AggregateFirstNewKey(
                      [agg EXCEPT ![key] =
                          mergePairData(agg[key], pairs[i].History)],
                      pairs, i + 1)
             ELSE IF i = 1
             THEN AggregateFirstNewKey(
                      [k \in DOMAIN agg \cup {key} |->
                          IF k = key THEN pairs[i].History ELSE agg[k]],
                      pairs, i + 1)
             ELSE AggregateFirstNewKey(agg, pairs, i + 1)

\* aggregatedData after the loop over req.Pairs from pair i on.
RECURSIVE Aggregate(_, _, _)
Aggregate(agg, pairs, i) ==
    IF i > Len(pairs) THEN agg
    ELSE LET key == PairKey(pairs[i])
             merged ==
                 IF key \in DOMAIN agg
                 THEN mergePairData(agg[key], pairs[i].History)
                 ELSE pairs[i].History
         IN  Aggregate(
                 [k \in DOMAIN agg \cup {key} |->
                     IF k = key THEN merged ELSE agg[k]],
                 pairs, i + 1)

\* The bucket after every aggregated record is put back.
StoreAggregated(agg) == [k \in DOMAIN agg |-> Marshal(agg[k])]

\* The bucket the transaction commits.
RegisterBatch(bucket, pairs) ==
    StoreAggregated(Aggregate(LoadBucket(bucket), pairs, 1))

\* "Successfully registered N pairs", "and removed K stale pairs" when K > 0.
SuccessMessage(registered, removed) ==
    <<"Successfully registered", registered, "pairs">>
        \o (IF removed > 0
            THEN <<"and removed", removed, "stale pairs">>
            ELSE <<>>)

----------------------------------------------------------------------------
(* QueryAggregatedMissionControl and cleanupStaleData.                     *)

\* The pairs ForEach appends, in key order.
QueryPairs(bucket) ==
    LET keys == SortedKeys(DOMAIN bucket)
    IN  [i \in 1..Len(keys) |->
            PairHistory(SubSeq(keys[i], 1, PubKeyCompressedSize),
                        SubSeq(keys[i], PubKeyCompressedSize + 1,
                               Len(keys[i])),
                        Unmarshal(bucket[keys[i]]))]

\* cleanupStaleData deletes inside ForEach, which bbolt leaves undefined (the
\* function must not modify the bucket): after a delete the cursor may step
\* over the next key.  The sets of keys a sweep may delete, visiting keys
\* from index i on; skip says whether key i may be stepped over.
RECURSIVE SweepDeletes(_, _, _, _, _)
SweepDeletes(bucket, keys, i, skip, t) ==
    IF i > Len(keys) THEN {{}}
    ELSE LET stale == isHistoryStale(Unmarshal(bucket[keys[i]]),
                                     HistoryThresholdDuration, t)
             visited ==
                 IF stale
                 THEN {D \cup {keys[i]} :
                          D \in SweepDeletes(bucket, keys, i + 1, TRUE, t)}
                 ELSE SweepDeletes(bucket, keys, i + 1, FALSE, t)
         IN  IF skip
             THEN visited \cup SweepDeletes(bucket, keys, i + 1, FALSE, t)
             ELSE visited

\* The buckets a sweep may commit when time.Now() reads t.
CleanupOutcomes(bucket, t) ==
    {[k \in DOMAIN bucket \ D |-> bucket[k]] :
        D \in SweepDeletes(bucket, SortedKeys(DOMAIN bucket), 1, FALSE, t)}

----------------------------------------------------------------------------
(* Spec: the server.                                                       *)

Init ==
    /\ db = EmptyBucket
    /\ now = 1060
    /\ cleanup = "off"
    /\ lastCall = [op |-> "none"]
    /\ NoTransactions
    /\ call = [pc |-> "idle"]
    /\ existingData = ZeroPairData
    /\ newData = ZeroPairData
    /\ oldData = ZeroPairData
    /\ mpc = "idle"

\* A variant that registers the pairs the validator's loop had passed when
\* it met the error.
RegisterPassedPairs(req) ==
    LET err == validateRegisterMissionControlRequest(req, now)
        passed == IF req = NilRequest THEN <<>>
                  ELSE SubSeq(req.Pairs, 1, PairsPassed(req, 1))
        pairs == sanitizeRegisterMissionControlRequest(passed, now)
    IN  /\ db' = RegisterBatch(db, pairs)
        /\ lastCall' =
              IF err # "ok"
              THEN [op |-> "register", code |-> "InvalidArgument",
                    error |-> err, passed |-> PairsPassed(req, 1)]
              ELSE [op |-> "register", req |-> req, code |-> "OK",
                    at |-> now,
                    message |-> SuccessMessage(
                                    Len(pairs),
                                    stalePairsRemoved(req.Pairs, now)),
                    had |-> {PairKey(req.Pairs[i]) :
                                i \in 1..Len(req.Pairs)}
                                \cap DOMAIN db]
        /\ UNCHANGED <<now, cleanup, mergeVars, call, txVars>>

\* RegisterMissionControl(ctx, req), whole.  The validator reads the clock at
\* now; the clock may have advanced when the sanitizer reads it.
RegisterMissionControl(req) ==
    LET err == validateRegisterMissionControlRequest(req, now)
    IN  IF err # "ok"
        THEN /\ lastCall' = [op |-> "register", code |-> "InvalidArgument",
                             error |-> err, passed |-> PairsPassed(req, 1)]
             /\ UNCHANGED <<db, now, cleanup, mergeVars, call, txVars>>
        ELSE \E t \in {now, NextClock(now)} :
                LET pairs == sanitizeRegisterMissionControlRequest(req.Pairs, t)
                    removed == stalePairsRemoved(req.Pairs, t)
                IN  /\ db' = RegisterBatch(db, pairs)
                    /\ now' = t
                    /\ lastCall' =
                          [op |-> "register", req |-> req, code |-> "OK",
                           at |-> t,
                           message |-> SuccessMessage(Len(pairs), removed),
                           had |-> {PairKey(req.Pairs[i]) :
                                       i \in 1..Len(req.Pairs)}
                                       \cap DOMAIN db]
                    /\ UNCHANGED <<cleanup, mergeVars, call, txVars>>

Register == \E req \in Requests : RegisterMissionControl(req)

\* QueryAggregatedMissionControl(ctx, req), whole.
QueryAggregatedMissionControl ==
    /\ lastCall' = [op |-> "query", code |-> "OK", pairs |-> QueryPairs(db)]
    /\ UNCHANGED <<db, now, cleanup, mergeVars, call, txVars>>

\* cleanupStaleData(), whole: one read-write transaction.
cleanupStaleData ==
    /\ \E bucket \in CleanupOutcomes(db, now) : db' = bucket
    /\ lastCall' = [op |-> "cleanup",
                    removed |-> Cardinality(DOMAIN db)
                                    - Cardinality(DOMAIN db')]
    /\ UNCHANGED <<now, mergeVars, call, txVars>>

\* RunCleanupRoutine(ctx, ticker): one sweep at once, then the goroutine.
RunCleanupRoutine ==
    /\ cleanup = "off"
    /\ cleanupStaleData
    /\ cleanup' = "running"

\* case <-ticker.C.  After a cancellation select may still take this case
\* while both channels are ready.
TickerFires ==
    /\ cleanup \in {"running", "cancelled"}
    /\ cleanupStaleData
    /\ UNCHANGED cleanup

\* The context of the cleanup routine is cancelled.
CancelCleanup ==
    /\ cleanup = "running"
    /\ cleanup' = "cancelled"
    /\ UNCHANGED <<db, now, lastCall, mergeVars, call, txVars>>

\* case <-ctx.Done(): the goroutine returns.
CleanupExits ==
    /\ cleanup = "cancelled"
    /\ cleanup' = "stopped"
    /\ UNCHANGED <<db, now, lastCall, mergeVars, call, txVars>>

\* Time passes.
AdvanceClock ==
    /\ \E u \in ClockValues : now < u
    /\ now' = NextClock(now)
    /\ UNCHANGED <<db, cleanup, lastCall, mergeVars, call, txVars>>

Next ==
    \/ Register
    \/ QueryAggregatedMissionControl
    \/ RunCleanupRoutine
    \/ TickerFires
    \/ CancelCleanup
    \/ CleanupExits
    \/ AdvanceClock

Spec == Init /\ [][Next]_vars

----------------------------------------------------------------------------
(* RequestSpec: one request taken through the validator and the sanitizer, *)
(* each reading the clock for itself.                                      *)

MaxListLen == 3

\* A failure whose time is the cutoff of the first clock reading exactly.
HistoryEdge == PairData(1060 - HistoryThresholdDuration, 1, 1000, 0, 0, 0)

\* A stale failure and a recent success.
HistoryMixed == PairData(400, 1, 1000, 1060, 0, 999)

\* A negative satoshi amount beside millisatoshi amounts of 0.
HistoryNegativeSat == PairData(1060, 0, 0, 1060, -1, 0)

CheckedPairs ==
    {PairHistory(NodeA, NodeB, HistoryBoth),
     PairHistory(NodeB, NodeA, HistorySkewed),
     PairHistory(NodeA, NodeB, HistoryStale),
     PairHistory(NodeA, NodeB, HistoryEdge),
     PairHistory(NodeB, NodeA, HistoryMixed),
     PairHistory(NodeShort, NodeB, HistoryBoth),
     PairHistory(NodeA, NodeShort, HistoryBoth),
     PairHistory(NodeOffCurve, NodeB, HistoryBoth),
     PairHistory(NodeA, NodeOffCurve, HistoryBoth),
     PairHistory(NodeA, NodeB, NilHistory),
     PairHistory(NodeA, NodeB, HistoryNegative),
     PairHistory(NodeA, NodeB, HistoryNegativeSat)}

CheckedRequests ==
    {NilRequest}
        \cup {RegisterMissionControlRequest(pairs) :
                 pairs \in SeqsUpTo(CheckedPairs, MaxListLen)}

RequestInit ==
    /\ \E req \in CheckedRequests, tv \in ClockValues :
          \E ts \in {tv, NextClock(tv)} :
              call = [pc |-> "validate",
                      req |-> req,
                      pairs |-> IF req = NilRequest THEN <<>> ELSE req.Pairs,
                      validatedAt |-> tv,
                      sanitizedAt |-> ts,
                      err |-> "none",
                      removed |-> <<>>]
    /\ db = EmptyBucket
    /\ now = 0
    /\ cleanup = "off"
    /\ lastCall = [op |-> "none"]
    /\ NoTransactions
    /\ existingData = ZeroPairData
    /\ newData = ZeroPairData
    /\ oldData = ZeroPairData
    /\ mpc = "idle"

\* s.validateRegisterMissionControlRequest(req)
ValidateRequest ==
    /\ call.pc = "validate"
    /\ LET err == validateRegisterMissionControlRequest(
                      call.req, call.validatedAt)
       IN  call' = [call EXCEPT
                       !.err = err,
                       !.pc = IF err = "ok" THEN "sanitize" ELSE "rejected"]
    /\ UNCHANGED <<mergeVars, serverVars, txVars>>

\* The sanitizer applied to call.pairs when the clock reads call.sanitizedAt.
Sanitized(pc) ==
    [call EXCEPT
        !.pairs = sanitizeRegisterMissionControlRequest(@, call.sanitizedAt),
        !.removed = Append(@, stalePairsRemoved(call.pairs,
                                                call.sanitizedAt)),
        !.pc = pc]

\* stalePairsRemoved := s.sanitizeRegisterMissionControlRequest(req)
SanitizeRequest ==
    /\ call.pc = "sanitize"
    /\ call' = Sanitized("sanitized")
    /\ UNCHANGED <<mergeVars, serverVars, txVars>>

\* The sanitizer applied to the request it has sanitized, the clock unchanged.
SanitizeAgain ==
    /\ call.pc = "sanitized"
    /\ call' = Sanitized("done")
    /\ UNCHANGED <<mergeVars, serverVars, txVars>>

RequestNext == ValidateRequest \/ SanitizeRequest \/ SanitizeAgain

RequestSpec == RequestInit /\ [][RequestNext]_vars

----------------------------------------------------------------------------
(* RegisterSpec: one RegisterMissionControl call on a store and at a clock *)
(* reading drawn in the initial state.                                     *)

\* The amounts of HistoryBoth observed five minutes less 30 s earlier.
HistoryEarlier == PairData(760, 1, 1000, 760, 2, 2000)

\* The amounts of HistoryBoth observed five minutes later.
HistoryLater == PairData(1330, 1, 1000, 1330, 2, 2000)

\* The pairs the requests of the call are made of.
RegisterPairs ==
    RequestPairs
        \cup {PairHistory(NodeA, NodeB, HistoryEarlier),
              PairHistory(NodeA, NodeB, HistoryLater)}

RegisterRequests ==
    {NilRequest}
        \cup {RegisterMissionControlRequest(pairs) :
                 pairs \in SeqsUpTo(RegisterPairs, MaxPairs)}

\* The pairs of requests that pass the validator at the first clock reading.
AcceptablePairs ==
    {pair \in RegisterPairs :
        /\ ValidatePair(pair) = "ok"
        /\ ~isHistoryStale(pair.History, HistoryThresholdDuration, 1060)}

\* The stores one registration into the empty store commits, and the empty
\* store.
Stores ==
    {RegisterBatch(EmptyBucket, pairs) :
        pairs \in SeqsUpTo(AcceptablePairs, MaxPairs)}

\* call.before keeps the store the call finds.
RegisterInit ==
    /\ db \in Stores
    /\ now \in ClockValues
    /\ call = [pc |-> "register", before |-> db]
    /\ cleanup = "off"
    /\ lastCall = [op |-> "none"]
    /\ NoTransactions
    /\ existingData = ZeroPairData
    /\ newData = ZeroPairData
    /\ oldData = ZeroPairData
    /\ mpc = "idle"

RegisterOnce ==
    /\ lastCall.op = "none"
    /\ \E req \in RegisterRequests : RegisterMissionControl(req)

RegisterSpec == RegisterInit /\ [][RegisterOnce]_vars

----------------------------------------------------------------------------
(* Properties of mergePairData, checked under MergeSpec.                   *)

\* The success and failure ranges of a record do not overlap.
BandOk(r) ==
    (r.FailTime > 0 /\ r.SuccessAmtMsat > 0)
        => r.SuccessAmtMsat < r.FailAmtMsat

UnitConsistent(r) ==
    /\ r.SuccessAmtSat = r.SuccessAmtMsat \div mSatScale
    /\ r.FailAmtSat = r.FailAmtMsat \div mSatScale

NonNegativeAmounts(r) == r.FailAmtMsat >= 0 /\ r.SuccessAmtMsat >= 0

\* The failure update of this call is newer, higher and too soon, stated on
\* the arguments of the call.
GuardCase ==
    /\ newData.FailTime > oldData.FailTime
    /\ newData.FailAmtMsat > oldData.FailAmtMsat
    /\ newData.FailTime - oldData.FailTime < MinFailureRelaxInterval

\* The failure update of this call is newer and is let through.
FailureAccepted == newData.FailTime > oldData.FailTime /\ ~GuardCase

\* The success amount the record holds after the success update.
SuccessAmtAfterM1 ==
    IF newData.SuccessTime > oldData.SuccessTime
    THEN Max(oldData.SuccessAmtMsat, newData.SuccessAmtMsat)
    ELSE oldData.SuccessAmtMsat

\* C1: after any mergePairData of a record whose ranges do not overlap with
\* an observation of non-negative amounts, the ranges of the record do not
\* overlap, the calls that end at the relaxation guard included.
C1_BandNonOverlapAfterMerge ==
    (MergeReturned /\ BandOk(oldData) /\ NonNegativeAmounts(newData))
        => BandOk(existingData)

\* C2: after every mergePairData, whatever branch it took, the satoshi
\* amounts of the record are its millisatoshi amounts divided by 1000.
C2_UnitsConsistentAfterMerge ==
    MergeReturned => UnitConsistent(existingData)

C4_AmountIndependentFailure ==
    (/\ MergeReturned
     /\ newData.FailAmtMsat = 0
     /\ newData.SuccessAmtMsat = 0
     /\ newData.FailTime > oldData.FailTime
     /\ oldData.SuccessAmtMsat > 0
     /\ oldData.FailTime = 0)
        => /\ existingData.SuccessAmtMsat = 0
           /\ existingData.FailAmtMsat = 0
           /\ existingData.FailTime = newData.FailTime

\* C5: after mergePairData(a, b) the success time is the later of the two
\* success times; the fail time is the later of the two fail times when the
\* relaxation guard does not trip and a's fail time when it does.
C5_TimestampsMonotone ==
    MergeReturned =>
        /\ existingData.SuccessTime =
              Max(oldData.SuccessTime, newData.SuccessTime)
        /\ existingData.FailTime =
              IF GuardCase THEN oldData.FailTime
              ELSE Max(oldData.FailTime, newData.FailTime)

\* The guard has tripped on an observation with a newer success time: the
\* success time moved and the fail time did not.
C5_Witness ==
    /\ MergeReturned
    /\ GuardCase
    /\ newData.SuccessTime > oldData.SuccessTime
    /\ existingData.SuccessTime = newData.SuccessTime
    /\ existingData.FailTime = oldData.FailTime
    /\ existingData.FailTime < newData.FailTime

\* C6: a newer success with no failure update leaves the larger of the two
\* success amounts, so a later and smaller success does not shrink it.
C6_SuccessAmtIsMax ==
    (/\ MergeReturned
     /\ newData.SuccessTime > oldData.SuccessTime
     /\ newData.FailTime <= oldData.FailTime)
        => existingData.SuccessAmtMsat =
              Max(oldData.SuccessAmtMsat, newData.SuccessAmtMsat)

\* A later and smaller success has been merged and the amount is the old one.
C6_Witness ==
    /\ MergeReturned
    /\ newData.SuccessTime > oldData.SuccessTime
    /\ newData.FailTime <= oldData.FailTime
    /\ 0 < newData.SuccessAmtMsat
    /\ newData.SuccessAmtMsat < oldData.SuccessAmtMsat
    /\ existingData.SuccessAmtMsat = oldData.SuccessAmtMsat
    /\ existingData.SuccessTime = newData.SuccessTime

FailTimeAfterM2 ==
    IF FailureAccepted THEN newData.FailTime ELSE oldData.FailTime

FailAmtAfterM2 ==
    IF FailureAccepted THEN newData.FailAmtMsat ELSE oldData.FailAmtMsat

\* C8: in every merge, once the success and failure updates are applied, a
\* record with fail_time # 0 and new.success_amt_msat >= its fail_amt_msat
\* gets fail_amt_msat = new.success_amt_msat + 1, and otherwise keeps the
\* fail_amt_msat the failure update left.
C8_FailureRangeRepair ==
    MergeReturned =>
        existingData.FailAmtMsat =
            IF FailTimeAfterM2 # 0 /\ newData.SuccessAmtMsat >= FailAmtAfterM2
            THEN newData.SuccessAmtMsat + 1
            ELSE FailAmtAfterM2

----------------------------------------------------------------------------
(* Properties of the server, checked under Spec.                           *)

\* The last call was an accepted registration of one pair whose key had no
\* record, and this step is the query that follows it.
QueryFollowsFirstRegistration ==
    /\ lastCall.op = "register"
    /\ lastCall.code = "OK"
    /\ Len(lastCall.req.Pairs) = 1
    /\ lastCall.had = {}
    /\ lastCall'.op = "query"

\* C9: round trip.  When a single-pair request H that passed validation was
\* registered into a store holding no record for H's key, the query that
\* follows returns a record with H's node_from and node_to whose history is
\* H's history with both satoshi amounts rederived as amt_msat / 1000.
C9_RoundTrip ==
    [][QueryFollowsFirstRegistration =>
          LET H == lastCall.req.Pairs[1]
          IN  \E i \in 1..Len(lastCall'.pairs) :
                  lastCall'.pairs[i] =
                      PairHistory(H.NodeFrom, H.NodeTo,
                                  RederiveSat(H.History))]_vars

\* C10: band non-overlap in the store.  After every committed transaction
\* every stored record with fail_time > 0 and success_amt_msat > 0 has
\* success_amt_msat < fail_amt_msat.
C10_StoreBandNonOverlap ==
    \A k \in DOMAIN db : BandOk(Unmarshal(db[k]))

\* C11: unit consistency in the store.  After every committed transaction
\* every stored record has fail_amt_sat = fail_amt_msat / 1000 and
\* success_amt_sat = success_amt_msat / 1000.
C11_StoreUnitsConsistent ==
    \A k \in DOMAIN db : UnitConsistent(Unmarshal(db[k]))

\* C12: non-negative amounts in the store.  After every committed
\* transaction every stored record has fail_amt_msat >= 0 and
\* success_amt_msat >= 0.
C12_StoreAmountsNonNegative ==
    \A k \in DOMAIN db : NonNegativeAmounts(Unmarshal(db[k]))

----------------------------------------------------------------------------
(* Properties of the validator and the sanitizer, checked under            *)
(* RequestSpec.                                                            *)

\* The validator has accepted the request of the call.
Accepted == call.pc \in {"sanitize", "sanitized", "done"}

\* The most recent timestamp of the history is older than the threshold
\* when the clock reads t.
OlderThanThreshold(history, t) ==
    /\ history.FailTime < t - HistoryThresholdDuration
    /\ history.SuccessTime < t - HistoryThresholdDuration

\* What an accepted pair is to satisfy.
SoundPair(pair) ==
    /\ Len(pair.NodeFrom) = 33
    /\ Len(pair.NodeTo) = 33
    /\ pair.NodeFrom \in {NodeA, NodeB}
    /\ pair.NodeTo \in {NodeA, NodeB}
    /\ pair.History # NilHistory
    /\ pair.History.FailAmtSat >= 0
    /\ pair.History.FailAmtMsat >= 0
    /\ pair.History.SuccessAmtSat >= 0
    /\ pair.History.SuccessAmtMsat >= 0
    /\ pair.History.FailAmtSat * 1000 = pair.History.FailAmtMsat
    /\ pair.History.SuccessAmtSat * 1000 = pair.History.SuccessAmtMsat

\* C13: validation soundness.  In every request the validator accepts,
\* every pair has 33-byte node ids that are curve points, a history that is
\* not nil, non-negative amounts in both units and satoshi amounts that
\* times 1000 are the millisatoshi amounts, and at least one pair is not
\* stale at validation time.
C13_ValidationSound ==
    Accepted =>
        /\ call.req # NilRequest
        /\ \A i \in 1..Len(call.req.Pairs) : SoundPair(call.req.Pairs[i])
        /\ \E i \in 1..Len(call.req.Pairs) :
              ~OlderThanThreshold(call.req.Pairs[i].History,
                                  call.validatedAt)

\* The validator has answered a request of at least one pair whose pairs
\* all pass the checks of one pair.
StalenessDecides ==
    /\ call.pc \notin {"idle", "validate"}
    /\ call.req # NilRequest
    /\ Len(call.req.Pairs) >= 1
    /\ \A i \in 1..Len(call.req.Pairs) :
          ValidatePair(call.req.Pairs[i]) = "ok"

\* Every pair of the request is older than the threshold at validation time.
EveryPairOld ==
    \A i \in 1..Len(call.req.Pairs) :
        OlderThanThreshold(call.req.Pairs[i].History, call.validatedAt)

\* C14: all-stale rejection.  A request whose pairs all pass the checks of
\* one pair is rejected if and only if max(fail_time, success_time) of every
\* pair is older than the threshold at validation time, and the rejection is
\* the all-stale InvalidArgument error.
C14_AllStaleRejection ==
    StalenessDecides =>
        /\ (call.pc = "rejected") <=> EveryPairOld
        /\ (call.pc = "rejected") => (call.err = "all stale")

\* A request of two stale pairs is rejected.
C14_Witness ==
    /\ StalenessDecides
    /\ Len(call.req.Pairs) = 2
    /\ EveryPairOld
    /\ call.pc = "rejected"
    /\ call.err = "all stale"

\* C16: after the sanitizer has run on a request the validator accepted, the
\* list of pairs is not empty, whatever the two clock readings were.
C16_SanitizedNonEmpty ==
    (call.pc \in {"sanitized", "done"}) => Len(call.pairs) >= 1

\* The pairs of the request that are not stale at the sanitizer's clock
\* reading, in their order.
FreshPairs ==
    LET Fresh(pair) == ~OlderThanThreshold(pair.History, call.sanitizedAt)
    IN  SelectSeq(call.req.Pairs, Fresh)

\* C17: sanitizer idempotence.  The first application leaves exactly the
\* pairs that are not stale, in their original order, and returns the number
\* of pairs it removed; the second application at the same clock reading
\* leaves the list as it is and returns 0.
C17_SanitizerIdempotent ==
    /\ (call.pc = "sanitized") =>
          /\ call.pairs = FreshPairs
          /\ call.removed = <<Len(call.req.Pairs) - Len(FreshPairs)>>
    /\ (call.pc = "done") =>
          /\ call.pairs = FreshPairs
          /\ call.removed = <<Len(call.req.Pairs) - Len(FreshPairs), 0>>

\* The sanitizer has run twice on a request of three pairs, two of them
\* stale and next to each other.
C17_Witness ==
    /\ call.pc = "done"
    /\ Len(call.req.Pairs) = 3
    /\ call.removed = <<2, 0>>
    /\ call.pairs = <<call.req.Pairs[1]>>

----------------------------------------------------------------------------
(* Properties of one registration, checked under RegisterSpec.             *)

\* The call has answered OK: db is the store it committed, call.before the
\* store it found, now the clock reading of its sanitizer.
Registered ==
    /\ call.pc = "register"
    /\ lastCall.op = "register"
    /\ lastCall.code = "OK"

\* The call has answered InvalidArgument.
Rejected ==
    /\ call.pc = "register"
    /\ lastCall.op = "register"
    /\ lastCall.code = "InvalidArgument"

\* C15: a request rejected by validation changes nothing.  Whenever
\* RegisterMissionControl answers InvalidArgument, the store holds exactly
\* the records it held before the call.
C15_RejectedChangesNothing == Rejected => db = call.before

\* A request was rejected for a pair that followed pairs which passed the
\* checks, and the store holds records.
C15_Witness ==
    /\ Rejected
    /\ lastCall.error \in {"NodeFrom length", "NodeTo public key",
                           "nil history", "negative amount"}
    /\ lastCall.passed >= 1
    /\ db # EmptyBucket

\* The pairs of a list that are not stale when the clock reads t, in order.
FreshAt(pairs, t) ==
    LET Fresh(pair) == ~OlderThanThreshold(pair.History, t)
    IN  SelectSeq(pairs, Fresh)

\* C18: registration never inserts a stale record.  For an accepted request,
\* a key that had no record and whose pairs in the request are all stale has
\* no record after the commit, and the committed store is the one that
\* registering the request without its stale pairs commits.
C18_NoStaleInsert ==
    Registered =>
        LET pairs == lastCall.req.Pairs
            keys == {PairKey(pairs[i]) : i \in 1..Len(pairs)}
        IN  /\ \A k \in keys \ DOMAIN call.before :
                  (\A i \in 1..Len(pairs) :
                      PairKey(pairs[i]) = k =>
                          OlderThanThreshold(pairs[i].History, now))
                      => k \notin DOMAIN db
            /\ db = RegisterBatch(call.before, FreshAt(pairs, now))

\* A request of a recent pair and a stale pair for another key was
\* registered, and the key of the stale pair has no record.
C18_Witness ==
    /\ Registered
    /\ lastCall.message = SuccessMessage(1, 1)
    /\ \E i \in 1..Len(lastCall.req.Pairs) :
          /\ OlderThanThreshold(lastCall.req.Pairs[i].History, now)
          /\ PairKey(lastCall.req.Pairs[i]) \notin DOMAIN db
    /\ db # call.before

\* The list with its pairs in the order perm.
Permuted(pairs, perm) == [i \in 1..Len(pairs) |-> pairs[perm[i]]]

\* The pairs of the list have pairwise distinct keys.
DistinctKeys(pairs) ==
    \A i, j \in 1..Len(pairs) :
        i # j => PairKey(pairs[i]) # PairKey(pairs[j])

\* C19: order independence for distinct keys.  For an accepted request whose
\* pairs have pairwise distinct keys, the committed store is the one that
\* every permutation of the pair list commits.
C19_OrderIndependentDistinctKeys ==
    (Registered /\ DistinctKeys(lastCall.req.Pairs)) =>
        \A perm \in Permutations(1..Len(lastCall.req.Pairs)) :
            db = RegisterBatch(
                     call.before,
                     sanitizeRegisterMissionControlRequest(
                         Permuted(lastCall.req.Pairs, perm), now))

\* A request of two recent pairs for two keys was registered; one key had a
\* record, the other had none.
C19_Witness ==
    /\ Registered
    /\ Len(lastCall.req.Pairs) = 2
    /\ DistinctKeys(lastCall.req.Pairs)
    /\ lastCall.message = SuccessMessage(2, 0)
    /\ Cardinality(DOMAIN call.before) = 1
    /\ Cardinality(DOMAIN db) = 2

\* The two pairs, the one with the older most recent timestamp first.
OlderFirst(pairs) ==
    LET recent(i) == Max(pairs[i].History.FailTime,
                         pairs[i].History.SuccessTime)
    IN  IF recent(1) <= recent(2) THEN pairs ELSE <<pairs[2], pairs[1]>>

\* C20: same-key pairs in one request.  For an accepted request of two pairs
\* for one key, neither of them stale, the committed store is the one the
\* request with the two pairs swapped commits, and the one that merging the
\* two in timestamp order, older first, commits.
C20_SameKeyOrderIndependent ==
    (/\ Registered
     /\ Len(lastCall.req.Pairs) = 2
     /\ ~DistinctKeys(lastCall.req.Pairs)
     /\ FreshAt(lastCall.req.Pairs, now) = lastCall.req.Pairs) =>
        LET pairs == lastCall.req.Pairs
        IN  /\ db = RegisterBatch(call.before, <<pairs[2], pairs[1]>>)
            /\ db = RegisterBatch(call.before, OlderFirst(pairs))

\* The one pair the sanitizer leaves is for a key that has a record.
MergesOnePair ==
    /\ Registered
    /\ Len(FreshAt(lastCall.req.Pairs, now)) = 1
    /\ PairKey(FreshAt(lastCall.req.Pairs, now)[1]) \in DOMAIN call.before

\* C21: stored timestamps never go backwards.  A registration leaves every
\* record it finds in the store, with a success_time and a fail_time not
\* earlier than before; merging one observation whose times are not newer
\* than the stored ones leaves both times as they were, and merging one with
\* two newer times and a fail amount not above the stored one makes both
\* times the newer ones.
C21_StoredTimesMonotone ==
    /\ Registered =>
          \A k \in DOMAIN call.before :
              /\ k \in DOMAIN db
              /\ Unmarshal(db[k]).SuccessTime
                     >= Unmarshal(call.before[k]).SuccessTime
              /\ Unmarshal(db[k]).FailTime
                     >= Unmarshal(call.before[k]).FailTime
    /\ MergesOnePair =>
          LET pair == FreshAt(lastCall.req.Pairs, now)[1]
              new == pair.History
              old == Unmarshal(call.before[PairKey(pair)])
              got == Unmarshal(db[PairKey(pair)])
          IN  /\ (new.SuccessTime <= old.SuccessTime
                     /\ new.FailTime <= old.FailTime)
                    => (got.SuccessTime = old.SuccessTime
                           /\ got.FailTime = old.FailTime)
              /\ (new.SuccessTime > old.SuccessTime
                     /\ new.FailTime > old.FailTime
                     /\ new.FailAmtMsat <= old.FailAmtMsat)
                    => (got.SuccessTime = new.SuccessTime
                           /\ got.FailTime = new.FailTime)

\* An observation with two newer times and the stored fail amount was merged
\* into a record, and the record has the two newer times.
C21_Witness ==
    /\ MergesOnePair
    /\ LET pair == FreshAt(lastCall.req.Pairs, now)[1]
           old == Unmarshal(call.before[PairKey(pair)])
           got == Unmarshal(db[PairKey(pair)])
       IN  /\ old.FailTime > 0
           /\ old.SuccessTime > 0
           /\ pair.History.SuccessTime > old.SuccessTime
           /\ pair.History.FailTime > old.FailTime
           /\ pair.History.FailAmtMsat = old.FailAmtMsat
           /\ got.SuccessTime = pair.History.SuccessTime
           /\ got.FailTime = pair.History.FailTime

----------------------------------------------------------------------------
(* TxSpec: concurrent calls at the granularity of bbolt transactions.      *)
(* db.Update takes the writer lock, runs its function on a private copy of *)
(* the bucket and commits, or rolls back when the function fails.  db.View *)
(* reads the committed bucket.  db.Batch runs the functions of the calls   *)
(* that arrive together in one db.Update; when one fails the transaction   *)
(* rolls back, the failed call runs its function again alone, and the      *)
(* others are run again in a new db.Update.                                *)

MaxCalls == 2

MaxSweeps == 1

RegIds == 1..MaxCalls

HistoryFresh == PairData(0, 0, 0, 1650, 1, 1000)

TxRequests ==
    {RegisterMissionControlRequest(<<>>),
     RegisterMissionControlRequest(<<PairHistory(NodeA, NodeB, HistoryLater)>>),
     RegisterMissionControlRequest(<<PairHistory(NodeB, NodeA, HistoryFresh)>>),
     RegisterMissionControlRequest(
         <<PairHistory(NodeA, NodeB, HistoryFailSoon),
           PairHistory(NodeA, NodeB, HistoryFresh)>>)}

\* The stores the calls may find: empty, or one record registered before.
TxStores ==
    {EmptyBucket,
     RegisterBatch(EmptyBucket, <<PairHistory(NodeA, NodeB, HistoryFailSoon)>>)}

\* failed says whether the last run of the function of the call failed.
\* What makes the function of a call fail whenever it runs: nothing, the
\* load of the bucket (a record that does not decode), or a put.
Faults == {"none", "decode", "put"}

\* An entry of aggregatedData is a pointer: to a record decoded in this run
\* (val), or to the History of pair ref of the request.
Deref(cell, pairs) ==
    IF "ref" \in DOMAIN cell THEN pairs[cell.ref].History ELSE cell.val

\* aggregatedData after the ForEach over the bucket: every key of the bucket
\* is set to a new record, every other entry stays.
BodyLoad(agg, bucket) ==
    [k \in DOMAIN agg \cup DOMAIN bucket |->
        IF k \in DOMAIN bucket THEN [val |-> Unmarshal(bucket[k])]
        ELSE agg[k]]

\* The loop over req.Pairs from pair i on, on the pointers: mergePairData
\* writes through the entry, which may be the History of a pair.
RECURSIVE BodyAggregate(_, _, _)
BodyAggregate(agg, pairs, i) ==
    IF i > Len(pairs) THEN [agg |-> agg, pairs |-> pairs]
    ELSE LET key == PairKey(pairs[i])
         IN  IF key \notin DOMAIN agg
             THEN BodyAggregate(
                      [k \in DOMAIN agg \cup {key} |->
                          IF k = key THEN [ref |-> i] ELSE agg[k]],
                      pairs, i + 1)
             ELSE LET merged == mergePairData(Deref(agg[key], pairs),
                                              pairs[i].History)
                  IN  IF "ref" \in DOMAIN agg[key]
                      THEN BodyAggregate(
                               agg,
                               [pairs EXCEPT ![agg[key].ref].History = merged],
                               i + 1)
                      ELSE BodyAggregate(
                               [agg EXCEPT ![key] = [val |-> merged]],
                               pairs, i + 1)

\* The bucket after the entries of keys are put.
BodyPut(bucket, agg, pairs, keys) ==
    [k \in DOMAIN bucket \cup keys |->
        IF k \in keys THEN Marshal(Deref(agg[k], pairs)) ELSE bucket[k]]

\* One run of the function of a call on the bucket of a transaction; done
\* is the set of keys put before a failing put.  With nothing to put no put
\* fails.
BodyRun(reg, bucket, done) ==
    IF reg.fault = "decode"
    THEN [ok |-> FALSE, agg |-> reg.agg, pairs |-> reg.pairs,
          bucket |-> bucket]
    ELSE LET after == BodyAggregate(BodyLoad(reg.agg, bucket), reg.pairs, 1)
             ok == reg.fault = "none" \/ DOMAIN after.agg = {}
         IN  [ok |-> ok,
              agg |-> after.agg,
              pairs |-> after.pairs,
              bucket |-> BodyPut(bucket, after.agg, after.pairs,
                                 IF ok THEN DOMAIN after.agg
                                 ELSE done \cap DOMAIN after.agg)]

\* The sets of keys a failing run may have put: all but at least one.
PutBeforeFailure(reg, bucket) ==
    LET keys == DOMAIN BodyLoad(reg.agg, bucket)
                    \cup {PairKey(reg.pairs[i]) : i \in 1..Len(reg.pairs)}
    IN  IF keys = {} THEN {{}} ELSE (SUBSET keys) \ {keys}

\* A variant: db.Update never waits.
WriterLockIgnored(t) == TRUE

\* db.Update does not wait: no read-write transaction is open.
WriterLockFree(t) == t.owner = "none"

\* A variant: the puts of the failed function stay.
AfterRollbackKeepsPuts(bucket, t) == t.bucket

\* The bucket after a transaction rolls back: the committed one.
AfterRollback(bucket, t) == bucket

\* A variant: the failed call stays in the batch.
KeepFailed(calls, i) == calls

\* batch.run takes the failed call out: the last call moves to its place.
RemoveFailed(calls, i) ==
    [j \in 1..(Len(calls) - 1) |-> IF j = i THEN calls[Len(calls)] ELSE calls[j]]

Sweeps(log) == {i \in 1..Len(log) : log[i].op = "sweep"}

TxInit ==
    /\ db \in TxStores
    /\ now = 1650
    /\ regs = [r \in RegIds |-> [pc |-> "idle"]]
    /\ pending = <<>>
    /\ running = <<>>
    /\ tx = [owner |-> "none"]
    /\ committed = <<[op |-> "open", left |-> db]>>
    /\ cleanup = "off"
    /\ lastCall = [op |-> "none"]
    /\ call = [pc |-> "idle"]
    /\ existingData = ZeroPairData
    /\ newData = ZeroPairData
    /\ oldData = ZeroPairData
    /\ mpc = "idle"

\* The call after RegisterMissionControl returns with the status code.
Returned(reg, code) ==
    [pc |-> "returned", code |-> code, req |-> reg.req, pairs |-> reg.pairs,
     agg |-> reg.agg, fault |-> reg.fault, failed |-> reg.failed]

\* RegisterMissionControl up to db.Batch: the request is validated and
\* sanitized, aggregatedData is made, and the function joins the batch.
CallRegister(r) ==
    /\ regs[r].pc = "idle"
    /\ \A q \in RegIds : q < r => regs[q].pc # "idle"
    /\ \E req \in TxRequests, fault \in Faults :
          LET err == validateRegisterMissionControlRequest(req, now)
          IN  IF err # "ok"
              THEN /\ fault = "none"
                   /\ regs' = [regs EXCEPT ![r] =
                                  [pc |-> "returned",
                                   code |-> "InvalidArgument"]]
                   /\ UNCHANGED <<now, pending>>
              ELSE \E t \in {now, NextClock(now)} :
                      LET pairs ==
                              sanitizeRegisterMissionControlRequest(
                                  req.Pairs, t)
                      IN  /\ regs' = [regs EXCEPT ![r] =
                                         [pc |-> "queued",
                                          req |-> pairs,
                                          pairs |-> pairs,
                                          agg |-> <<>>,
                                          fault |-> fault,
                                          failed |-> FALSE]]
                          /\ pending' = Append(pending, r)
                          /\ now' = t
    /\ UNCHANGED <<db, running, tx, committed, cleanup, lastCall, call,
                   mergeVars>>

\* The batch is full or its timer fires: batch.run starts with its calls.
TriggerBatch ==
    /\ pending # <<>>
    /\ running = <<>>
    /\ running' = pending
    /\ pending' = <<>>
    /\ UNCHANGED <<db, now, regs, tx, committed, cleanup, lastCall, call,
                   mergeVars>>

\* batch.run enters db.Update.
BeginBatch ==
    /\ running # <<>>
    /\ WriterLockFree(tx)
    /\ tx' = [owner |-> "batch", base |-> db, bucket |-> db, idx |-> 1]
    /\ UNCHANGED <<db, now, regs, pending, running, committed, cleanup,
                   lastCall, call, mergeVars>>

\* The function of the next call of the batch runs in the transaction.  When
\* it fails the transaction rolls back, the call is told to try alone and
\* batch.run starts over with the others.
BatchBody ==
    /\ tx.owner = "batch"
    /\ tx.idx <= Len(running)
    /\ LET r == running[tx.idx]
       IN  \E done \in PutBeforeFailure(regs[r], tx.bucket) :
              LET run == BodyRun(regs[r], tx.bucket, done)
              IN  IF run.ok
                  THEN /\ done = {}
                       /\ tx' = [tx EXCEPT !.bucket = run.bucket,
                                           !.idx = tx.idx + 1]
                       /\ regs' = [regs EXCEPT ![r].agg = run.agg,
                                               ![r].pairs = run.pairs]
                       /\ UNCHANGED <<db, running>>
                  ELSE /\ db' = AfterRollback(db, [tx EXCEPT !.bucket = run.bucket])
                       /\ tx' = [owner |-> "none"]
                       /\ running' = RemoveFailed(running, tx.idx)
                       /\ regs' = [regs EXCEPT ![r].agg = run.agg,
                                               ![r].pairs = run.pairs,
                                               ![r].failed = TRUE,
                                               ![r].pc = "solo"]
    /\ UNCHANGED <<now, pending, committed, cleanup, lastCall, call,
                   mergeVars>>

\* Every function of the batch returned nil: db.Update commits and every
\* call of the batch returns OK.
CommitBatch ==
    /\ tx.owner = "batch"
    /\ tx.idx > Len(running)
    /\ db' = tx.bucket
    /\ tx' = [owner |-> "none"]
    /\ committed' = Append(committed, [op |-> "register", calls |-> running,
                                       left |-> tx.bucket])
    /\ regs' = [r \in RegIds |->
                   IF \E i \in 1..Len(running) : running[i] = r
                   THEN Returned(regs[r], "OK")
                   ELSE regs[r]]
    /\ running' = <<>>
    /\ UNCHANGED <<now, pending, cleanup, lastCall, call, mergeVars>>

\* A call that was told to try alone runs its function in a db.Update of
\* its own, and returns OK, or Internal when the function fails again.
SoloUpdate(r) ==
    /\ regs[r].pc = "solo"
    /\ WriterLockFree(tx)
    /\ \E done \in PutBeforeFailure(regs[r], db) :
          LET run == BodyRun(regs[r], db, done)
              reg == [regs[r] EXCEPT !.agg = run.agg, !.pairs = run.pairs,
                                     !.failed = ~run.ok]
          IN  IF run.ok
              THEN /\ done = {}
                   /\ db' = run.bucket
                   /\ committed' = Append(committed,
                                          [op |-> "register",
                                           calls |-> <<r>>,
                                           left |-> run.bucket])
                   /\ regs' = [regs EXCEPT ![r] = Returned(reg, "OK")]
              ELSE /\ db' = AfterRollback(db, [owner |-> "solo", base |-> db,
                                               bucket |-> run.bucket])
                   /\ regs' = [regs EXCEPT ![r] = Returned(reg, "Internal")]
                   /\ UNCHANGED committed
    /\ UNCHANGED <<now, pending, running, tx, cleanup, lastCall, call,
                   mergeVars>>

\* cleanupStaleData, called by the cleanup routine: one db.Update.
TxSweep ==
    /\ WriterLockFree(tx)
    /\ Cardinality(Sweeps(committed)) < MaxSweeps
    /\ \E bucket \in CleanupOutcomes(db, now) :
          /\ db' = bucket
          /\ committed' = Append(committed, [op |-> "sweep", saw |-> db,
                                             at |-> now, left |-> bucket])
    /\ UNCHANGED <<now, regs, pending, running, tx, cleanup, lastCall, call,
                   mergeVars>>

\* QueryAggregatedMissionControl up to its return: db.View reads the
\* committed bucket.
TxQuery ==
    /\ lastCall' = [op |-> "query", code |-> "OK", pairs |-> QueryPairs(db),
                    after |-> Len(committed)]
    /\ UNCHANGED <<db, now, regs, pending, running, tx, committed, cleanup,
                   call, mergeVars>>

\* The transactions committed after entry from of the log that wrote pages
\* of the bucket.
WriteCommits(log, from) ==
    {i \in (from + 1)..Len(log) :
        \/ log[i].op = "register"
        \/ log[i].op = "sweep" /\ log[i].left # log[i].saw}

\* Bytes of a page that was freed and written again.
OverwrittenBytes == Bytes(PubKeyCompressedSize, 0, 0)

\* What the pairs of a response may read as when it is encoded.  NodeFrom and
\* NodeTo are slices of the key bytes ForEach passed, which are valid only
\* while the transaction of db.View is open: once a later transaction has
\* freed their page and another has written it again, they read as whatever
\* is there.
ResponsePairs(pairs, reused) ==
    {pairs} \cup
        (IF reused
         THEN {[i \in DOMAIN pairs |->
                  [pairs[i] EXCEPT !.NodeFrom = OverwrittenBytes,
                                   !.NodeTo = OverwrittenBytes]]}
         ELSE {})

\* QueryAggregatedMissionControl has returned and its response is encoded
\* for the caller.
TxRespond ==
    /\ lastCall.op = "query"
    /\ \E pairs \in ResponsePairs(
                       lastCall.pairs,
                       Cardinality(WriteCommits(committed, lastCall.after))
                           >= 2) :
          lastCall' = [op |-> "response", code |-> "OK", pairs |-> pairs,
                       after |-> lastCall.after]
    /\ UNCHANGED <<db, now, regs, pending, running, tx, committed, cleanup,
                   call, mergeVars>>

TxAdvanceClock ==
    /\ NextClock(now) # now
    /\ now' = NextClock(now)
    /\ UNCHANGED <<db, regs, pending, running, tx, committed, cleanup,
                   lastCall, call, mergeVars>>

TxNext ==
    \/ \E r \in RegIds : CallRegister(r)
    \/ TriggerBatch
    \/ BeginBatch
    \/ BatchBody
    \/ CommitBatch
    \/ \E r \in RegIds : SoloUpdate(r)
    \/ TxSweep
    \/ TxAdvanceClock

\* Registrations and sweeps.
TxSpec == TxInit /\ [][TxNext]_vars

TxQueryNext ==
    \/ TxNext
    \/ TxQuery
    \/ TxRespond

\* Registrations, sweeps and queries.
TxQuerySpec == TxInit /\ [][TxQueryNext]_vars

----------------------------------------------------------------------------
(* Properties under TxSpec and TxQuerySpec.                                *)

\* The whole registrations and sweeps among the first n entries of the log:
\* each call of a committed batch is one operation.
CommittedOps(n) ==
    {[op |-> "register", call |-> r] :
        r \in {q \in RegIds :
                  \E i \in 2..n :
                      /\ committed[i].op = "register"
                      /\ \E j \in 1..Len(committed[i].calls) :
                            committed[i].calls[j] = q}}
    \cup {[op |-> "sweep", at |-> committed[i].at, entry |-> i] :
             i \in {j \in 2..n : committed[j].op = "sweep"}}

\* The stores one whole operation, run alone, may leave from one of stores.
SerialStep(stores, o) ==
    IF o.op = "register"
    THEN {RegisterBatch(s, regs[o.call].req) : s \in stores}
    ELSE UNION {CleanupOutcomes(s, o.at) : s \in stores}

\* The stores the operations leave when run one after another in any order.
RECURSIVE SerialStores(_, _)
SerialStores(stores, ops) ==
    IF ops = {} THEN stores
    ELSE UNION {SerialStores(SerialStep(stores, o), ops \ {o}) : o \in ops}

\* C22: linearizability at transaction granularity.  The result of every
\* query is the content of a store that the registrations and sweeps
\* committed before the query leave when each runs whole, alone, in some
\* order, starting from the store the server opened.
C22_QuerySeesSerialStore ==
    lastCall.op = "query" =>
        \E s \in SerialStores({committed[1].left},
                              CommittedOps(lastCall.after)) :
            lastCall.pairs = QueryPairs(s)

\* C23: a sweep never observes a partially committed registration.  While
\* the transaction of a batch is open the bucket a sweep would iterate is the
\* one the transaction found, with none of its writes; and the bucket every
\* sweep iterated is the one the transaction committed just before it left,
\* with all the writes of the registrations committed so far and none of any
\* other.
C23_SweepSeesWholeRegistrations ==
    /\ tx.owner = "batch" => db = tx.base
    /\ \A i \in Sweeps(committed) : committed[i].saw = committed[i - 1].left

\* The batch is part-way (one function has put its records, one has yet to
\* run) while the committed bucket holds a stale record for a sweep to delete.
C23_Witness ==
    /\ tx.owner = "batch"
    /\ Len(running) = 2
    /\ tx.idx = 2
    /\ tx.bucket # tx.base
    /\ db = tx.base
    /\ \E k \in DOMAIN db :
          isHistoryStale(Unmarshal(db[k]), HistoryThresholdDuration, now)

\* The calls whose writes a committed transaction holds.
CommittedCalls ==
    {r \in RegIds :
        \E i \in 2..Len(committed) :
            /\ committed[i].op = "register"
            /\ \E j \in 1..Len(committed[i].calls) : committed[i].calls[j] = r}

\* C28: no partial commit.  A call whose function failed in its last run
\* returns Internal, and only such a call does; no committed transaction
\* holds its writes; and the store is at any time the one the last committed
\* transaction left: a failed function leaves none of its puts.
C28_NoPartialCommit ==
    /\ \A r \in RegIds :
          (regs[r].pc = "returned" /\ regs[r].code # "InvalidArgument") =>
              /\ regs[r].code = "Internal" <=> regs[r].failed
              /\ regs[r].code = "Internal" => r \notin CommittedCalls
    /\ WriterLockFree(tx) => db = committed[Len(committed)].left

\* A call with pairs to store failed at a put and returned Internal, while
\* the other call of its batch committed.
C28_Witness ==
    \E r \in RegIds :
        /\ regs[r].pc = "returned"
        /\ regs[r].code = "Internal"
        /\ regs[r].fault = "put"
        /\ regs[r].req # <<>>
        /\ CommittedCalls # {}
        /\ db # committed[1].left

----------------------------------------------------------------------------
(* CleanupSpec: the cleanup routine, its context and its ticker.  cleanup  *)
(* is where the routine is: "off", "first" (the sweep RunCleanupRoutine    *)
(* runs itself), "select" (the goroutine waits in its select), "sweep" (a  *)
(* sweep after a tick), "exited".  call holds the context and the ticker   *)
(* channel.  CleanupFairSpec adds the scheduling the liveness needs.       *)

\* What one cleanupStaleData may do to the bucket when time.Now() reads t:
\* commit its deletions; fail to decode a record, and roll back; or fail to
\* delete the keys of failed, log it, go on, and commit the other deletions.
SweepResults(bucket, t) ==
    LET deletes == SweepDeletes(bucket, SortedKeys(DOMAIN bucket), 1, FALSE, t)
        without(D) == [k \in DOMAIN bucket \ D |-> bucket[k]]
    IN  {[error |-> "none", bucket |-> without(D),
          removed |-> Cardinality(D)] : D \in deletes}
        \cup (IF DOMAIN bucket = {} THEN {}
              ELSE {[error |-> "decode", bucket |-> bucket, removed |-> 0]})
        \cup UNION {{[error |-> "delete", bucket |-> without(D \ failed),
                      removed |-> Cardinality(D \ failed)] :
                        failed \in (SUBSET D) \ {{}}} : D \in deletes}

\* A variant of the select: the context is looked at only when no tick
\* waits.
SelectReturnsWhenIdle(c) == c.done /\ ~c.tick

\* The select of the goroutine may take the case of ctx.Done().
SelectMayReturn(c) == c.done

CleanupInit ==
    /\ db \in Stores
    /\ now \in ClockValues
    /\ cleanup = "off"
    /\ call = [pc |-> "routine", done |-> FALSE, tick |-> FALSE,
               during |-> FALSE, before |-> db, at |-> now]
    /\ lastCall = [op |-> "none"]
    /\ NoTransactions
    /\ existingData = ZeroPairData
    /\ newData = ZeroPairData
    /\ oldData = ZeroPairData
    /\ mpc = "idle"

\* RunCleanupRoutine(ctx, ticker) is called and enters its first sweep;
\* before and at are the store and the clock reading it is called with.
StartCleanupRoutine ==
    /\ cleanup = "off"
    /\ cleanup' = "first"
    /\ call' = [call EXCEPT !.before = db, !.at = now]
    /\ UNCHANGED <<db, now, lastCall, mergeVars, txVars>>

\* The sweep in progress returns; the goroutine is at its select, started
\* after the first sweep or back from a tick.
SweepReturns ==
    /\ cleanup \in {"first", "sweep"}
    /\ \E res \in SweepResults(db, now) :
          /\ db' = res.bucket
          /\ lastCall' = [op |-> "cleanup", error |-> res.error,
                          removed |-> res.removed, before |-> db,
                          at |-> now, done |-> call.done]
    /\ cleanup' = "select"
    /\ UNCHANGED <<now, call, mergeVars, txVars>>

\* The ticker sends on ticker.C, which holds one tick.
TickerTicks ==
    /\ ~call.tick
    /\ call' = [call EXCEPT !.tick = TRUE]
    /\ UNCHANGED <<db, now, cleanup, lastCall, mergeVars, txVars>>

\* The select takes the tick and a sweep begins.
TakeTick ==
    /\ cleanup = "select"
    /\ call.tick
    /\ cleanup' = "sweep"
    /\ call' = [call EXCEPT !.tick = FALSE, !.before = db, !.at = now]
    /\ UNCHANGED <<db, now, lastCall, mergeVars, txVars>>

\* The context is cancelled; during records whether a sweep was in progress.
CancelContext ==
    /\ ~call.done
    /\ call' = [call EXCEPT !.done = TRUE,
                            !.during = cleanup \in {"first", "sweep"}]
    /\ UNCHANGED <<db, now, cleanup, lastCall, mergeVars, txVars>>

\* The select takes ctx.Done() and the goroutine returns.
GoroutineReturns ==
    /\ cleanup = "select"
    /\ SelectMayReturn(call)
    /\ cleanup' = "exited"
    /\ UNCHANGED <<db, now, call, lastCall, mergeVars, txVars>>

CleanupNext ==
    \/ StartCleanupRoutine
    \/ SweepReturns
    \/ TickerTicks
    \/ TakeTick
    \/ CancelContext
    \/ GoroutineReturns
    \/ AdvanceClock

CleanupSpec == CleanupInit /\ [][CleanupNext]_vars

\* A sweep that began returns.  Of the cases of a select that can proceed Go
\* takes one at random, so the case of ctx.Done(), ready again and again, is
\* taken in the end.
CleanupFairSpec ==
    /\ CleanupSpec
    /\ WF_vars(SweepReturns)
    /\ SF_vars(GoroutineReturns)

----------------------------------------------------------------------------
(* Properties under CleanupSpec and CleanupFairSpec.                       *)

\* The last sweep returned without an error.
SweepSucceeded == lastCall.op = "cleanup" /\ lastCall.error = "none"

\* C24: sweeper eventual consistency.  After a sweep of the cleanup routine
\* completes, no record it found whose most recent timestamp was older than
\* the threshold plus the cleanup interval is in the store (no registration
\* refreshes a record here).
C24_OldRecordsAbsentAfterSweep ==
    SweepSucceeded =>
        \A k \in DOMAIN lastCall.before :
            isHistoryStale(Unmarshal(lastCall.before[k]),
                           HistoryThresholdDuration + StaleDataCleanupInterval,
                           lastCall.at)
                => k \notin DOMAIN db

\* C25: a successful sweep removes exactly the stale records.  After it the
\* store holds the records that were not stale when the sweep evaluated
\* them, each with the value it had, and nothing else.
C25_SweepRemovesExactlyStale ==
    SweepSucceeded =>
        LET fresh == {k \in DOMAIN lastCall.before :
                         ~isHistoryStale(Unmarshal(lastCall.before[k]),
                                         HistoryThresholdDuration,
                                         lastCall.at)}
        IN  db = [k \in fresh |-> lastCall.before[k]]

\* C27: sweeper errors are transient.  A sweep that met an error committed
\* no deletion, and the goroutine is still there to sweep at the next tick.
C27_FailedSweepCommitsNothing ==
    (lastCall.op = "cleanup" /\ lastCall.error # "none") =>
        /\ db = lastCall.before
        /\ call.done \/ cleanup \in {"select", "sweep"}

\* C26: sweeper cancellation.  The goroutine returns only from its select and
\* only when the context is cancelled; a sweep in progress when the context
\* is cancelled goes on until it returns as any sweep does; and once the
\* context is cancelled the goroutine returns in the end.
C26_CancelBetweenSweeps ==
    /\ [][/\ (cleanup' = "exited" /\ cleanup # "exited") =>
                (cleanup = "select" /\ call.done)
          /\ (cleanup \in {"first", "sweep"} /\ cleanup' # cleanup) =>
                /\ cleanup' = "select"
                /\ \E res \in SweepResults(db, now) : db' = res.bucket]_vars
    /\ (call.done /\ cleanup \in {"first", "select", "sweep"})
           ~> (cleanup = "exited")

\* The context was cancelled while a sweep was in progress, that sweep
\* deleted a record, and the goroutine returned.
C26_Witness ==
    /\ cleanup = "exited"
    /\ call.during
    /\ lastCall.op = "cleanup"
    /\ lastCall.done
    /\ lastCall.removed > 0

----------------------------------------------------------------------------
(* The response of RegisterMissionControl, under RegisterSpec.             *)

\* C29: registration response.  For an accepted request, with N the number
\* of pairs the sanitizer leaves and K the number it removes, the message is
\* "Successfully registered N pairs", followed by "and removed K stale pairs"
\* exactly when K > 0; N + K is the number of pairs submitted; and N >= 1.
C29_ResponseMessage ==
    Registered =>
        LET submitted == Len(lastCall.req.Pairs)
            N == Len(FreshAt(lastCall.req.Pairs, now))
            K == submitted - N
        IN  /\ lastCall.message =
                  IF K > 0
                  THEN <<"Successfully registered", N, "pairs",
                         "and removed", K, "stale pairs">>
                  ELSE <<"Successfully registered", N, "pairs">>
            /\ N + K = submitted
            /\ N >= 1

----------------------------------------------------------------------------
(* QueryAggregatedMissionControl among concurrent transactions, under      *)
(* TxQuerySpec.                                                            *)

\* C30: the query returns exactly the records of one snapshot.  The pairs
\* the caller of a query gets are those of the store as the last transaction
\* committed before the query left it: one pair for every key, none for
\* anything else, node_from the first 33 bytes of the key, node_to the last
\* 33, the history the decoded value; and the store is still what the
\* committed transactions left.
C30_QueryReturnsSnapshot ==
    lastCall.op = "response" =>
        LET snap == committed[lastCall.after].left
            pairs == lastCall.pairs
        IN  /\ Len(pairs) = Cardinality(DOMAIN snap)
            /\ \A k \in DOMAIN snap :
                  Cardinality(
                      {i \in 1..Len(pairs) :
                          /\ pairs[i].NodeFrom = SubSeq(k, 1, 33)
                          /\ pairs[i].NodeTo = SubSeq(k, 34, 66)
                          /\ pairs[i].History = Unmarshal(snap[k])}) = 1
            /\ db = committed[Len(committed)].left

----------------------------------------------------------------------------
(* StaleSpec: one call of isHistoryStale on a history and a clock reading  *)
(* drawn in the initial state.                                             *)

\* The last timestamp time.Unix holds without wrapping.
LastUnixTime == MaxInt64 - unixToInternal

\* Timestamps of the histories: none, before 1970, around the cutoffs of the
\* clock readings (460, 1050, 1080), current, and at the end of the int64
\* range.
StaleTimes ==
    {-1, 0, 459, 460, 461, 1050, 1060, LastUnixTime, LastUnixTime + 1,
     MaxInt64}

StaleHistories ==
    {PairData(ft, 0, 0, st, 0, 0) : ft \in StaleTimes, st \in StaleTimes}

StaleInit ==
    /\ existingData = ZeroPairData
    /\ newData = ZeroPairData
    /\ oldData = ZeroPairData
    /\ mpc = "done"
    /\ db = EmptyBucket
    /\ now \in ClockValues
    /\ cleanup = "off"
    /\ lastCall = [op |-> "none"]
    /\ NoTransactions
    /\ call \in {[pc |-> "isHistoryStale", history |-> h] :
                    h \in StaleHistories}

\* isHistoryStale(history, s.config.Server.HistoryThresholdDuration).
CallIsHistoryStale ==
    /\ call.pc = "isHistoryStale"
    /\ lastCall' =
           [op |-> "isHistoryStale", history |-> call.history, at |-> now,
            stale |-> isHistoryStale(
                          call.history, HistoryThresholdDuration, now)]
    /\ call' = [pc |-> "returned"]
    /\ UNCHANGED <<mergeVars, db, now, cleanup, txVars>>

StaleNext == CallIsHistoryStale

StaleSpec == StaleInit /\ [][StaleNext]_vars

\* C31: the stale predicate.  isHistoryStale(h, threshold) is true exactly
\* when the largest of 0, h.fail_time and h.success_time is strictly earlier
\* than now - threshold: a history with one timestamp before the cutoff and
\* one not before it is not stale, and neither is one whose most recent
\* timestamp is the cutoff itself.
C31_StalePredicate ==
    lastCall.op = "isHistoryStale" =>
        LET h == lastCall.history
            cutoff == lastCall.at - HistoryThresholdDuration
            recent == Max(0, Max(h.FailTime, h.SuccessTime))
        IN  lastCall.stale <=> recent < cutoff

----------------------------------------------------------------------------
(* The frame of a registration, under TxSpec.                              *)

\* The keys of the sanitized requests of the calls of entry i of the log.
RequestKeys(i) ==
    UNION {{PairKey(regs[committed[i].calls[j]].req[n]) :
               n \in 1..Len(regs[committed[i].calls[j]].req)} :
           j \in 1..Len(committed[i].calls)}

\* C32: the frame of a registration.  A committed RegisterMissionControl
\* changes only the records whose key is in its sanitized request: every
\* other record of the store before the transaction is there afterwards with
\* the same value, no other record appears, and no key is removed.
C32_RegistrationFrame ==
    \A i \in 2..Len(committed) :
        committed[i].op = "register" =>
            LET before == committed[i - 1].left
                after == committed[i].left
            IN  /\ DOMAIN before \subseteq DOMAIN after
                /\ \A k \in DOMAIN after \ RequestKeys(i) :
                      /\ k \in DOMAIN before
                      /\ after[k] = before[k]

----------------------------------------------------------------------------
(* The start of the cleanup routine, under CleanupSpec.                    *)

\* The records of the bucket that are stale when time.Now() reads t.
StaleKeys(bucket, t) ==
    {k \in DOMAIN bucket :
        isHistoryStale(Unmarshal(bucket[k]), HistoryThresholdDuration, t)}

\* C33: the start-up order of the sweeper.  RunCleanupRoutine returns, and
\* its goroutine comes to its select, only once a first sweep is through, and
\* then no record that was stale when RunCleanupRoutine was called is in the
\* store; no sweep runs before that one; and every later sweep begins by
\* taking one tick from the ticker.
C33_FirstSweepBeforeReturn ==
    [][/\ (cleanup = "first" /\ cleanup' # "first") =>
              /\ cleanup' = "select"
              /\ StaleKeys(call.before, call.at) \cap DOMAIN db' = {}
       /\ (cleanup = "off" /\ cleanup' # "off") =>
              (cleanup' = "first" /\ db' = db)
       /\ (cleanup' = "sweep" /\ cleanup # "sweep") =>
              (cleanup = "select" /\ call.tick /\ ~call'.tick)]_vars

----------------------------------------------------------------------------
(* Observations that are not newer, under MergeSpec.                       *)

\* Neither timestamp of the observation is later than that of the record,
\* and the satoshi amounts of the record are those of its millisatoshi
\* amounts.
NotNewer ==
    /\ newData.SuccessTime <= oldData.SuccessTime
    /\ newData.FailTime <= oldData.FailTime
    /\ UnitConsistent(oldData)

\* The observation's success amount reaches into the failure range of the
\* record.
RepairCase ==
    oldData.FailTime # 0 /\ newData.SuccessAmtMsat >= oldData.FailAmtMsat

----------------------------------------------------------------------------
(* A request submitted twice, under Spec.                                  *)

\* The last call was an accepted registration of req, nothing has been
\* called since and the clock reads what it read then.
JustRegistered(req) ==
    /\ lastCall.op = "register"
    /\ lastCall.code = "OK"
    /\ lastCall.req = req
    /\ lastCall.at = now

\* C35: re-registration is idempotent.  When the request of the accepted
\* registration that has just returned is submitted again, with the clock
\* unchanged, every record of the store stays exactly as the first
\* submission left it, the keys it created and those it merged into alike.
C35_ReRegistrationIdempotent ==
    [][\A req \in Requests :
          (JustRegistered(req) /\ RegisterMissionControl(req) /\ now' = now)
              => db' = db]_vars

----------------------------------------------------------------------------
(* Re-execution of the function given to db.Batch, under TxSpec.           *)

\* The bucket after the functions of calls, from call j on, have each run
\* once, with a map of their own, in one transaction on bucket.
RECURSIVE RunOnce(_, _, _)
RunOnce(bucket, calls, j) ==
    IF j > Len(calls) THEN bucket
    ELSE RunOnce(RegisterBatch(bucket, regs[calls[j]].req), calls, j + 1)

\* C36: the function given to db.Batch is idempotent under re-execution.
\* Whatever runs of it were rolled back before, the state a registration
\* transaction commits is the state one execution of its functions commits
\* on the store the transaction started from: nothing that the discarded
\* runs left in aggregatedData or in the histories of the request shows.
C36_BatchBodyIdempotent ==
    \A i \in 2..Len(committed) :
        committed[i].op = "register" =>
            committed[i].left =
                RunOnce(committed[i - 1].left, committed[i].calls, 1)

\* C37: no resurrection.  The keys of the store a registration commits are
\* keys of the store its transaction started from or keys of the sanitized
\* requests it carries: a record that a sweep deleted before is not written
\* back by a registration that does not name its key, and neither is a
\* record that only a rolled-back transaction had written.
C37_NoResurrection ==
    \A i \in 2..Len(committed) :
        committed[i].op = "register" =>
            DOMAIN committed[i].left
                \subseteq DOMAIN committed[i - 1].left \cup RequestKeys(i)

----------------------------------------------------------------------------
(* WideMergeSpec: one call of mergePairData, rule by rule as in MergeSpec, *)
(* on amounts up to the largest an int64 holds.                            *)

\* Millisatoshi amounts of the whole range the validator accepts.
WideAmts == {0, mSatScale, MaxInt64 - 1, MaxInt64}

WideObservations ==
    {Observation(ft, fam, st, sam, 0) :
        ft \in {0, 1000, 1030}, fam \in WideAmts,
        st \in {0, 1000}, sam \in WideAmts}

WideMergeInit ==
    /\ existingData \in WideObservations
    /\ newData \in WideObservations
    /\ oldData = existingData
    /\ mpc = "success"
    /\ db = EmptyBucket
    /\ now = 0
    /\ cleanup = "off"
    /\ lastCall = [op |-> "none"]
    /\ NoTransactions
    /\ call = [pc |-> "idle"]

WideMergeSpec == WideMergeInit /\ [][MergeNext]_vars

\* The amounts of the record and of the observation are in 0 .. 2^63 - 1.
AmountsInRange ==
    \A r \in {oldData, newData} :
        /\ r.FailAmtMsat \in 0..MaxInt64
        /\ r.SuccessAmtMsat \in 0..MaxInt64

\* C38: no int64 wrap-around in the merge.  For a record and an observation
\* with amounts in 0 .. 2^63 - 1, no rule of mergePairData makes a
\* millisatoshi amount of the record negative, and when the failure range
\* repair fires the failure amount it leaves is strictly greater than
\* new.success_amt_msat.
C38_NoWrapInMerge ==
    [][AmountsInRange =>
          /\ existingData'.FailAmtMsat >= 0
          /\ existingData'.SuccessAmtMsat >= 0
          /\ (/\ mpc = "repair"
              /\ existingData.FailTime # 0
              /\ newData.SuccessAmtMsat >= existingData.FailAmtMsat)
                 => existingData'.FailAmtMsat > newData.SuccessAmtMsat]_vars

----------------------------------------------------------------------------
(* TxFairSpec: registrations, sweeps and queries as calls that start, wait *)
(* for their transaction and return, with the scheduling of the Go runtime *)
(* and of bbolt.                                                           *)

\* cleanupStaleData is called and comes to db.Update.
CallCleanup ==
    /\ cleanup = "off"
    /\ Cardinality(Sweeps(committed)) < MaxSweeps
    /\ cleanup' = "update"
    /\ UNCHANGED <<db, now, lastCall, call, mergeVars, txVars>>

\* db.Update of cleanupStaleData gets the writer lock, runs and commits, and
\* cleanupStaleData returns.
CleanupUpdate ==
    /\ cleanup = "update"
    /\ WriterLockFree(tx)
    /\ \E bucket \in CleanupOutcomes(db, now) :
          /\ db' = bucket
          /\ committed' = Append(committed, [op |-> "sweep", saw |-> db,
                                             at |-> now, left |-> bucket])
    /\ cleanup' = "off"
    /\ UNCHANGED <<now, regs, pending, running, tx, lastCall, call,
                   mergeVars>>

\* QueryAggregatedMissionControl is called and comes to db.View.
CallQuery ==
    /\ call.pc = "idle"
    /\ call' = [pc |-> "view"]
    /\ UNCHANGED <<db, now, cleanup, lastCall, mergeVars, txVars>>

\* db.View reads the committed bucket, whoever holds the writer lock, and
\* QueryAggregatedMissionControl returns.
QueryView ==
    /\ call.pc = "view"
    /\ lastCall' = [op |-> "query", code |-> "OK", pairs |-> QueryPairs(db),
                    after |-> Len(committed)]
    /\ call' = [pc |-> "idle"]
    /\ UNCHANGED <<db, now, cleanup, mergeVars, txVars>>

TxLiveNext ==
    \/ \E r \in RegIds : CallRegister(r)
    \/ TriggerBatch
    \/ BeginBatch
    \/ BatchBody
    \/ CommitBatch
    \/ \E r \in RegIds : SoloUpdate(r)
    \/ CallCleanup
    \/ CleanupUpdate
    \/ CallQuery
    \/ QueryView
    \/ TxAdvanceClock

TxLiveSpec == TxInit /\ [][TxLiveNext]_vars

\* ENABLED <<BatchBody>>_vars: the transaction of the batch is open and the
\* function of one of its calls is still to run.
BatchBodyEnabled == tx.owner = "batch" /\ tx.idx <= Len(running)

\* ENABLED <<SoloUpdate(r)>>_vars: the call was told to try alone and the
\* writer lock is free.
SoloUpdateEnabled(r) == regs[r].pc = "solo" /\ WriterLockFree(tx)

\* Weak fairness of every step: the timer of the batch fires, and a
\* goroutine that can take its next step, or whose db.Update finds the
\* writer lock free from some point on, takes it.  For BatchBody and
\* SoloUpdate, WF_vars(A) is written out as []<>~ENABLED <<A>>_vars \/
\* []<><<A>>_vars with the state predicates above for ENABLED.
TxFairSpec ==
    /\ TxLiveSpec
    /\ WF_vars(TriggerBatch)
    /\ WF_vars(BeginBatch)
    /\ []<>~BatchBodyEnabled \/ []<><<BatchBody>>_vars
    /\ WF_vars(CommitBatch)
    /\ \A r \in RegIds :
          []<>~SoloUpdateEnabled(r) \/ []<><<SoloUpdate(r)>>_vars
    /\ WF_vars(CleanupUpdate)
    /\ WF_vars(QueryView)

\* C39: no deadlock among the core operations.  With registrations, queries
\* and sweeps running concurrently, no RegisterMissionControl call stays for
\* ever in its batch or in its db.Update, no cleanupStaleData call stays for
\* ever at its db.Update and no QueryAggregatedMissionControl call at its
\* db.View: every call that has started returns, none waits forever for a
\* transaction another one holds.
C39_EveryCallReturns ==
    /\ \A r \in RegIds : []<>(regs[r].pc \notin {"queued", "solo"})
    /\ []<>(cleanup # "update")
    /\ []<>(call.pc # "view")

\* Every call has returned after contention: a registration was told to try
\* alone and returned Internal, another committed after its batch was run
\* again, a sweep committed, and a query returned after them.
C39_Witness ==
    /\ \A r \in RegIds : regs[r].pc = "returned"
    /\ \E r \in RegIds : regs[r].code = "Internal"
    /\ \E r \in RegIds : regs[r].code = "OK"
    /\ Sweeps(committed) # {}
    /\ tx.owner = "none"
    /\ cleanup = "off"
    /\ call.pc = "idle"
    /\ lastCall.op = "query"
    /\ lastCall.after = Len(committed)
====
